---- MODULE Spec2Model ----
(***************************************************************************)
(* A model of the composition engine of decorator-pattern-in-js: the       *)
(* copy-on-write createApi of part_000 (the same code as createPlugin of   *)
(* README.md lines 522-544), its snapshots, the wrappers updateState       *)
(* installs, the bound previous-implementation handles, and the calls a    *)
(* host makes on the snapshots it holds; and the other engines of the      *)
(* repository, each run by the script named after it (see Engine).         *)
(*                                                                         *)
(* The JavaScript heap is modelled explicitly: snapshots and function      *)
(* objects live in two tables and are referred to by their index, so that  *)
(* object identity, aliasing and `this` are what the code makes them.      *)
(***************************************************************************)
EXTENDS Naturals, Integers, Sequences, FiniteSets, TLC

VARIABLES
    snaps,      \* heap of state objects: snaps[i] is a map Keys -> Value
    fns,        \* heap of function objects (implementations, wrappers, bound functions)
    objs,       \* heap of the plain objects the host puts in a state (`cache: {}`)
    cur,        \* createApi's `currentState`: the index of the current state object
    hist,       \* one record per createApi/updateState call, in order (see Init, UpdateState)
    stack,      \* the JavaScript call stack of the call in progress
    ret,        \* the value returned by the frame that returned last
    out,        \* what the call in progress has written with console.log, in order
    err,        \* TRUE when the last call ended in an uncaught TypeError
    trace,      \* what the last top-level call did, in order (see Ev)
    call,       \* the last top-level call: receiver, key, arguments
    nCalls,     \* the calls the counting script has made so far
    passed,     \* pairs <<wrapper, handle>>: the handles a wrapper has passed to its implementation
    firstOut,   \* what the first completed top-level call had logged
    origRuns,   \* how often the random-number original has started
    counter,    \* the counting script's `let counter = 0`, outside the container
    scn         \* which host script is running: it decides the inputs and the engine

vars == <<snaps, fns, objs, cur, hist, stack, ret, out, err, trace, call, nCalls,
          passed, firstOut, origRuns, counter, scn>>

-----------------------------------------------------------------------------
(* Bounds of the model. *)
MaxUpdates == 2
MaxCalls == 4
MaxArgs == 2
MaxDepth == 3
MaxBindingUpdates == 3

(* state.generateRandomNumber(9): the seed the scripts pass. *)
Seed == 9

-----------------------------------------------------------------------------
(* Values.  A JavaScript value is a tagged pair: a number, a reference to  *)
(* a function object or to a plain object, a string, undefined, NaN, or    *)
(* (inside a state object's map only) the mark that the object has no own  *)
(* property under the key.                                                 *)
Undef == [t |-> "undef", v |-> 0]
Absent == [t |-> "absent", v |-> 0]
Data(n) == [t |-> "data", v |-> n]
Fn(id) == [t |-> "fn", v |-> id]
Lit(c) == [t |-> "lit", v |-> c]     \* a function literal in a props object: code c
NaN == [t |-> "nan", v |-> 0]

(* The strings that occur are '[object Object]' followed by k digits 1     *)
(* ('[object Object]' + 1 is '[object Object]1').                          *)
Str(k) == [t |-> "str", v |-> k]
ObjectString == Str(0)

(* A line written by console.log that is not a bare value: its template    *)
(* and the value interpolated.                                             *)
Msg(tag, v) == [t |-> tag, v |-> v]

Keys == {"x", "f", "set", "toString"}
KeyOrder == <<"x", "f", "set", "toString">>
ProtoKeys == {"toString"}            \* what every plain object inherits

(* typeof v === 'function' *)
IsFunction(v) == v.t = "fn"

(* !v : the falsy values that occur are undefined, NaN and 0. *)
Falsy(v) == v.t \in {"undef", "nan"} \/ (v.t = "data" /\ v.v = 0)

(* The `cache: {}` of part_001 line 43.  Evaluating the literal makes one   *)
(* object in the heap objs; the state object holds a reference to it under *)
(* x, and Object.assign (line 7) copies that reference into every later    *)
(* state object, so all of them share the one cache.  The keys are the     *)
(* strings `fib-${n}`: n = 0..MaxDepth, and -1 stands for 'fib-undefined'. *)
CacheObj(id) == [t |-> "obj", v |-> id]
NewObj == [t |-> "newobj", v |-> 0]  \* the literal {} in a props object
CacheKeys == (0 - 1)..MaxDepth
CacheKey(n) == IF n.t = "data" /\ n.v \in CacheKeys THEN n.v ELSE 0 - 1
EmptyCache == [n \in CacheKeys |-> Undef]

(* this.cache[cacheKey]: the stored result, or undefined (this.cache       *)
(* itself undefined is a TypeError, see StartImpl).                        *)
CacheGet(os, c, n) == os[c.v][CacheKey(n)]

(* this.cache[cacheKey] = result *)
CachePut(os, c, n, r) == [os EXCEPT ![c.v][CacheKey(n)] = r]

-----------------------------------------------------------------------------
(* The implementations a host supplies.  m is the number of parameters     *)
(* declared before the previous-implementation parameter, len the number   *)
(* of declared parameters (the function's length).                         *)
(*   read   getId() { return this.id }                                     *)
(*   show   method() { console.log(this.version) }                         *)
(*   chain  method(prevFn) { prevFn(); console.log(this.version) }         *)
(*   deleg  method(a1..am, prev) { const result = prev(a1..am)             *)
(*                                 return result }                         *)
(*   succ   get(prev) { return prev() + 1 }                                *)
(*   memo   rand(seed, prev) { if (!prev.cached) prev.cached = prev(seed)  *)
(*                             console.log(prev.cached) }                  *)
(*   rand   rand(seed) { return Math.floor(Math.random() * seed) }         *)
(*   set    setLevel(v) { this.x = v }                                     *)
(*   builtin  Object.prototype.toString                                    *)
(*   inc    count(prev) { counter++; this.x = this.x + 1; return prev() }  *)
(*   mid    getId(a, prev, b) { console.log(a, prev, b) }                  *)
(*   fib    f(n) { console.log(`Computing fibonacci(${n})...`)             *)
(*                 if (n <= 1) return n                                    *)
(*                 return this.f(n - 1) + this.f(n - 2) }                  *)
(*   time   f(n, prev) { const result = prev(n)                            *)
(*                       console.log(`Took ${duration}ms`)                 *)
(*                       return result }                                   *)
(*   cache  f(n, prev) { if (this.cache[`fib-${n}`]) {                     *)
(*                           console.log(`Cache hit for ${n}`)             *)
(*                           return this.cache[`fib-${n}`] }               *)
(*                       console.log(`Cache miss for ${n}`)                *)
(*                       const result = prev(n)                            *)
(*                       this.cache[`fib-${n}`] = result; return result }  *)
Code == <<
    [body |-> "read", m |-> 0, len |-> 0],
    [body |-> "deleg", m |-> 0, len |-> 1],
    [body |-> "time", m |-> 1, len |-> 2],
    [body |-> "deleg", m |-> 2, len |-> 3],
    [body |-> "show", m |-> 0, len |-> 0],
    [body |-> "memo", m |-> 1, len |-> 2],
    [body |-> "rand", m |-> 1, len |-> 1],
    [body |-> "set", m |-> 1, len |-> 1],
    [body |-> "builtin", m |-> 0, len |-> 0],
    [body |-> "inc", m |-> 0, len |-> 1],
    [body |-> "mid", m |-> 1, len |-> 3],
    [body |-> "fib", m |-> 1, len |-> 1],
    [body |-> "time", m |-> 1, len |-> 2],
    [body |-> "cache", m |-> 1, len |-> 2],
    [body |-> "chain", m |-> 0, len |-> 1],
    [body |-> "succ", m |-> 0, len |-> 1] >>

cRead == 1
cDeleg0 == 2
cDeleg1 == 3
cDeleg2 == 4
cShow == 5
cMemo == 6
cRand == 7
cSet == 8
cBuiltin == 9
cInc == 10
cMid == 11
cFib == 12
cTime == 13
cCache == 14
cChain == 15
cSucc == 16

(* Function objects.  An implementation carries its code; a wrapper (the   *)
(* function(...args) updateState installs) its new implementation, the     *)
(* state object it applies it to and the handle it passes; a bound         *)
(* function (the result of .bind) its target and its bound `this`.  Every  *)
(* function object can carry the extra field `cached`.  born is the index  *)
(* in hist of the call that created the object (1: createApi itself).      *)
ImplObj(c, u) ==
    [kind |-> "impl", code |-> c, fn |-> 0, self |-> 0, handle |-> 0,
     cached |-> Undef, born |-> u]
WrapObj(newFn, self, h, u) ==
    [kind |-> "wrap", code |-> 0, fn |-> newFn, self |-> self, handle |-> h,
     cached |-> Undef, born |-> u]
BoundObj(target, self, u) ==
    [kind |-> "bound", code |-> 0, fn |-> target, self |-> self, handle |-> 0,
     cached |-> Undef, born |-> u]

(* Object.prototype.toString is function object 1 of every heap. *)
ProtoFn == 1

(* obj[key]: the own property, else the inherited one, else undefined. *)
Get(obj, k) ==
    IF obj[k] # Absent THEN obj[k]
    ELSE IF k \in ProtoKeys THEN Fn(ProtoFn)
    ELSE Undef

(* The own enumerable keys of an object. *)
OwnKeys(obj) == {k \in Keys : obj[k] # Absent}

Empty == [k \in Keys |-> Absent]


-----------------------------------------------------------------------------
(* The host's side: evaluating an object literal creates one new function  *)
(* object per function literal in it and one new plain object per {} in    *)
(* it, in key order.                                                       *)
RECURSIVE Materialize(_, _, _, _, _)
Materialize(ks, props, fs, os, u) ==
    IF ks = <<>> THEN [fns |-> fs, objs |-> os, obj |-> props]
    ELSE LET k == Head(ks) IN
         IF props[k].t = "lit"
         THEN Materialize(Tail(ks), [props EXCEPT ![k] = Fn(Len(fs) + 1)],
                          Append(fs, ImplObj(props[k].v, u)), os, u)
         ELSE IF props[k] = NewObj
         THEN Materialize(Tail(ks), [props EXCEPT ![k] = CacheObj(Len(os) + 1)],
                          fs, Append(os, EmptyCache), u)
         ELSE Materialize(Tail(ks), props, fs, os, u)

-----------------------------------------------------------------------------
(* createApi.updateState, piece by piece (src/unnamed/part_000 lines 6-18) *)

(* line 7: const newState = Object.assign({}, currentState) is a new       *)
(* object; its index is the next free one.                                 *)
NewStateId_InPlace(ss, c) == c            \* the bug: newState = currentState
NewStateId(ss, c) == Len(ss) + 1

(* line 10: typeof currentState[key] === 'function' &&                     *)
(*          typeof props[key] === 'function'                               *)
ShouldWrap_OldOnly(old, new) == IsFunction(old)   \* the bug: props[key] not tested
ShouldWrap(old, new) == IsFunction(old) /\ IsFunction(new)

(* line 15: currentState[key], the function that gets bound. *)
OldFnOf_Original(ss, c, k) == Get(ss[1], k)   \* the bug: initialState[key]
OldFnOf(ss, c, k) == Get(ss[c], k)

(* line 15: .bind(currentState): the handle's `this` is the state current  *)
(* when updateState runs (c), not the new one (n).                         *)
BindThis_New(c, n) == n                   \* the bug: .bind(newState)
BindThis(c, n) == c

(* line 13: newFn.apply(newState, ...): the new implementation's `this`.   *)
ApplyThis(c, n) == n

(* line 13: args.concat(oldFn) *)
ConcatArgs_WhenEmpty(args, h) ==          \* the bug: the handle only when no argument
    IF args = <<>> THEN <<h>> ELSE args
ConcatArgs(args, h) == args \o <<h>>

(* lines 11-15: oldFn is the parameter of the immediately invoked function *)
(* expression, evaluated once per wrap; every call of the wrapper passes   *)
(* that same object.  The result is the heap and the handle passed.        *)
PassHandle_Rebind(fs, w) ==               \* the bug: oldFn.bind(...) inside the wrapper
    [fns |-> Append(fs, BoundObj(fs[fs[w].handle].fn, fs[fs[w].handle].self, fs[w].born)),
     h |-> Len(fs) + 1]
PassHandle(fs, w) == [fns |-> fs, h |-> fs[w].handle]

-----------------------------------------------------------------------------
(* The other engines of the repository.  The script that runs decides the  *)
(* engine:                                                                 *)
(*   "live"       createApi of part_002 and of part_008 lines 1-20         *)
(*   "inplace"    createApi of part_003, part_007, part_008 lines 43-60    *)
(*   "state"      createState of part_004 and part_006                     *)
(*   "arity"      createApi/initializeState of part_005                    *)
(*   "decorator"  createStore/initializeState/decorator of index.js 1-21   *)
(*   "flat"       createApi of index.js lines 40-60                        *)
(*   "cow"        createApi of part_000, for every other script            *)
(* The random-number script ("memo") is the one of part_002 and runs on    *)
(* part_002's createApi; "memo0" gives the same two functions to the       *)
(* createApi of part_000.                                                  *)
Engine ==
    IF scn \in {"live", "inplace", "state", "arity", "decorator", "flat"} THEN scn
    ELSE IF scn = "memo" THEN "live"
    ELSE "cow"

InPlace == Engine \in {"inplace", "state", "arity", "decorator"}

(* part_004 line 4, index.js line 16:                                      *)
(*     typeof state[key] === 'function' && key in state                    *)
(* props[key] is not tested.                                               *)
KeyHoldsFunction(old) == IsFunction(old)

(* The test that decides between wrapping and storing props[key]. *)
Wraps(old, new) ==
    IF Engine \in {"state", "decorator"} THEN KeyHoldsFunction(old)
    ELSE ShouldWrap(old, new)

(* The function a new implementation is composed with: state[key] of the   *)
(* object being updated; index.js line 50 takes initialState[key], and     *)
(* initialState is the first state object.                                 *)
PrevOf(ss, c, k) ==
    IF Engine = "flat" THEN Get(ss[1], k) ELSE OldFnOf(ss, c, k)

(* The `this` the handle is bound to: index.js line 57 binds initialState; *)
(* the in-place engines bind the one state object (there c = n).           *)
HandleThis(c, n) == IF Engine = "flat" THEN 1 ELSE BindThis(c, n)

(* The `this` the wrapper names for the new implementation when it is      *)
(* made: index.js line 58 names initialState.                              *)
LayerThis(c, n) == IF Engine = "flat" THEN 1 ELSE ApplyThis(c, n)

(* The object updateState writes into.  The in-place engines assign to the *)
(* one state object; index.js lines 47-51 make a new object only when a    *)
(* key wraps and leave newState alone otherwise.                           *)
TargetState(ss, c, wraps) ==
    CASE InPlace -> c
      [] Engine = "flat" -> IF wraps THEN Len(ss) + 1 ELSE c
      [] OTHER -> NewStateId(ss, c)

(* What a wrapper holds as its new implementation: a function object, or   *)
(* 0 when createState/decorator wrapped a value that is not a function.    *)
NewFnRef(v) == IF IsFunction(v) THEN v.v ELSE 0

(* part_005 lines 10-11:                                                   *)
(*     if (currFn.length > args.length) args[currFn.length - 1] = prevFn   *)
(*     return currFn.apply(state, args)                                    *)
(* Assigning beyond the end of args leaves holes, which read as undefined. *)
ArityArgs_LengthAboveOne(args, p, h) ==   \* the bug: the test of part_004
    IF p > 1
    THEN [i \in 1..(IF p > Len(args) THEN p ELSE Len(args)) |->
             IF i = p THEN h ELSE IF i <= Len(args) THEN args[i] ELSE Undef]
    ELSE args
ArityArgs(args, p, h) ==
    IF p > Len(args)
    THEN [i \in 1..p |->
             IF i = p THEN h ELSE IF i <= Len(args) THEN args[i] ELSE Undef]
    ELSE args

(* part_004 lines 9-10:                                                    *)
(*     if (currFn.length > 1) args[currFn.length - 1] = prevFn             *)
(*     return currFn.apply(state, args.length === 0 ? [prevFn] : args)     *)
CreateStateArgs(args, p, h) ==
    LET a == IF p > 1
             THEN [i \in 1..(IF p > Len(args) THEN p ELSE Len(args)) |->
                      IF i = p THEN h ELSE IF i <= Len(args) THEN args[i] ELSE Undef]
             ELSE args
    IN  IF Len(a) = 0 THEN <<h>> ELSE a

(* The arguments a wrapper calls its new implementation with; p is the     *)
(* new implementation's length.                                            *)
LayerArgs(args, p, h) ==
    CASE Engine = "state" -> CreateStateArgs(args, p, h)
      [] Engine = "arity" -> ArityArgs(args, p, h)
      [] OTHER -> ConcatArgs(args, h)

(* index.js line 3: prevFn = prevFn.bind(state) inside the wrapper, on     *)
(* every call: a new bound function of what prevFn held, which prevFn      *)
(* holds from then on.                                                     *)
Rebind(fs, w) ==
    [fns |-> [Append(fs, BoundObj(fs[w].handle, fs[w].self, fs[w].born))
                 EXCEPT ![w].handle = Len(fs) + 1],
     h |-> Len(fs) + 1]

(* The handle a wrapper passes when it is called. *)
HandleAtCall(fs, w) ==
    IF Engine = "decorator" THEN Rebind(fs, w) ELSE PassHandle(fs, w)

(* The `this` a wrapper calls its new implementation with: part_002 line   *)
(* 24 and part_008 line 13 read the variable currentState when the wrapper *)
(* runs.                                                                   *)
WrapperThis(fs, w, c) == IF Engine = "live" THEN c ELSE fs[w].self

(* Whether updateState(props) wraps some key (see TargetState). *)
SomeWrap(props, ss, c) ==
    \E k \in Keys : props[k] # Absent /\ Wraps(PrevOf(ss, c, k), props[k])

(* lines 9-15: the loop over the keys of props.  st is newState so far.    *)
RECURSIVE ComposeKeys(_, _, _, _, _, _, _, _)
ComposeKeys(ks, props, ss, fs, st, c, n, u) ==
    IF ks = <<>> THEN [fns |-> fs, st |-> st]
    ELSE LET k == Head(ks)
             old == PrevOf(ss, c, k)
             b == Len(fs) + 1
             w == Len(fs) + 2
         IN  IF props[k] = Absent
             THEN ComposeKeys(Tail(ks), props, ss, fs, st, c, n, u)
             ELSE IF Wraps(old, props[k])
             THEN IF Engine = "decorator"
                  THEN ComposeKeys(Tail(ks), props, ss,
                           Append(fs, WrapObj(NewFnRef(props[k]), LayerThis(c, n),
                                              old.v, u)),
                           [st EXCEPT ![k] = Fn(b)], c, n, u)
                  ELSE ComposeKeys(Tail(ks), props, ss,
                           fs \o << BoundObj(old.v, HandleThis(c, n), u),
                                    WrapObj(NewFnRef(props[k]), LayerThis(c, n), b, u) >>,
                           IF Engine = "flat" THEN [ss[1] EXCEPT ![k] = Fn(w)]
                           ELSE [st EXCEPT ![k] = Fn(w)], c, n, u)
             ELSE IF Engine = "flat"
             THEN ComposeKeys(Tail(ks), props, ss, fs, st, c, n, u)
             ELSE ComposeKeys(Tail(ks), props, ss, fs,
                      [st EXCEPT ![k] = props[k]], c, n, u)

(* line 5: getState: () => currentState *)
getState == cur

-----------------------------------------------------------------------------
(* The host scripts.  Each draws createApi's argument, the props of its    *)
(* updateState calls and the arguments of its calls from a small set.      *)
Obj(x, f, set, ts) == [k \in Keys |->
    CASE k = "x" -> x [] k = "f" -> f [] k = "set" -> set [] OTHER -> ts]

InitialProps(s) ==
    IF s \in {"memo", "memo0"} THEN { Obj(Absent, Lit(cRand), Absent, Absent) }
    ELSE IF s = "count" THEN { Obj(Data(0), Lit(cRead), Absent, Absent) }
    ELSE IF s = "fib" THEN { Obj(Absent, Lit(cFib), Absent, Absent) }
    ELSE IF s \in {"args", "live", "inplace", "state", "arity", "decorator", "flat",
                   "binding"}
    THEN { Obj(Data(1), Lit(cRead), Absent, Absent) }
    ELSE IF s \in {"holder", "plugin"}
    THEN { Obj(Data(1), Lit(cShow), Absent, Absent),
           Obj(Data(1), Absent, Absent, Absent) }
    ELSE { Obj(Data(1), Lit(cShow), Absent, Absent),
           Obj(Data(1), Lit(cRead), Absent, Absent),
           Obj(Data(1), Absent, Absent, Absent) }

UpdateProps(s) ==
    IF s \in {"memo", "memo0"} THEN { Obj(Absent, Lit(cMemo), Absent, Absent) }
    ELSE IF s = "decorator"
    THEN { Obj(Absent, Lit(cMemo), Absent, Absent),
           Obj(Absent, Data(5), Absent, Absent) }
    ELSE IF s = "count"
    THEN { Obj(Absent, Lit(cInc), Absent, Absent),
           Obj(Absent, Lit(cDeleg0), Absent, Absent) }
    ELSE IF s = "args"
    THEN { Obj(Data(2), Lit(cChain), Absent, Absent) }
    ELSE IF s = "fib"
    THEN { Obj(Absent, Lit(cTime), Absent, Absent),
           Obj(NewObj, Lit(cCache), Absent, Absent) }
    ELSE IF s \in {"live", "inplace"}
    THEN { Obj(Data(2), Lit(cDeleg0), Absent, Absent),
           Obj(Absent, Lit(cDeleg0), Absent, Absent),
           Obj(Data(2), Absent, Absent, Absent) }
    ELSE IF s = "state"
    THEN { Obj(Data(2), Lit(cDeleg0), Absent, Absent),
           Obj(Absent, Lit(cDeleg1), Absent, Absent),
           Obj(Absent, Lit(cDeleg2), Absent, Absent),
           Obj(Absent, Lit(cMid), Absent, Absent),
           Obj(Absent, Data(5), Absent, Absent) }
    ELSE IF s = "arity"
    THEN { Obj(Absent, Lit(cDeleg0), Absent, Absent),
           Obj(Absent, Lit(cDeleg1), Absent, Absent),
           Obj(Absent, Lit(cDeleg2), Absent, Absent),
           Obj(Absent, Lit(cRead), Absent, Absent) }
    ELSE IF s = "flat"
    THEN { Obj(Absent, Lit(cDeleg0), Absent, Absent),
           Obj(Data(2), Lit(cDeleg0), Absent, Absent),
           Obj(Absent, Lit(cDeleg1), Absent, Absent),
           Obj(Data(2), Absent, Absent, Absent) }
    ELSE IF s = "binding"
    THEN { Obj(Absent, Lit(cRead), Absent, Absent),
           Obj(Absent, Lit(cDeleg0), Absent, Absent),
           Obj(Data(2), Absent, Absent, Absent),
           Obj(Data(3), Lit(cDeleg0), Absent, Absent),
           Obj(Data(2), Lit(cSucc), Absent, Absent) }
    ELSE IF s = "holder"
    THEN { Obj(Data(2), Lit(cChain), Absent, Absent),
           Obj(Absent, Lit(cChain), Absent, Absent) }
    ELSE IF s = "plugin"
    THEN { Obj(Data(1), Lit(cChain), Lit(cSet), Absent),
           Obj(Data(2), Lit(cChain), Absent, Absent),
           Obj(Absent, Lit(cDeleg1), Absent, Absent) }
    ELSE { Obj(Data(2), Lit(cChain), Absent, Absent),
           Obj(Data(2), Lit(cSucc), Absent, Absent),
           Obj(Absent, Lit(cDeleg1), Absent, Absent),
           Obj(Absent, Lit(cDeleg2), Absent, Absent),
           Obj(Absent, Lit(cMid), Absent, Absent),
           Obj(Absent, Lit(cRead), Absent, Absent),
           Obj(Data(2), Absent, Absent, Absent),
           Obj(Absent, Data(5), Absent, Absent),
           Obj(Absent, Absent, Absent, Lit(cDeleg0)) }

(* The i-th argument of a call is the number 2 + i. *)
ArgSeq(n) == [i \in 1..n |-> Data(2 + i)]
CallArgs(s) ==
    IF s \in {"memo", "memo0"} THEN { <<Data(Seed)>> }
    ELSE IF s = "decorator" THEN { ArgSeq(1) }
    ELSE IF s = "count" THEN { ArgSeq(0) }
    ELSE IF s = "fib" THEN { <<Data(n)>> : n \in 0..MaxDepth }
    ELSE { ArgSeq(n) : n \in 0..MaxArgs }

(* What a host can pass where a props object is expected: an object, or a  *)
(* value that is not a mapping.  for...in over undefined, null, a number   *)
(* or the empty string enumerates no key, and so does Object.assign.       *)
NonMappings == {"undefined", "null", "number", "string"}
ArgKinds(s) == IF s = "args" THEN {"object"} \cup NonMappings ELSE {"object"}
PropsOf(a, s, choices) == IF a = "object" THEN choices ELSE { Empty }

(* The script of part_002 lines 28-48 installs its override, then calls a  *)
(* fixed number of times in a row on the state it got and compares what    *)
(* the calls yield; the other hosts call as often as they like and keep    *)
(* nothing between calls.                                                  *)
Counting == scn \in {"memo", "memo0", "decorator", "count", "fib"}

NoCall == [on |-> 0, key |-> "", args |-> <<>>]
None == << [t |-> "none", v |-> 0] >>

(* createApi (lines 1-2): currentState = Object.assign({}, initialState) *)
InitWith(s) ==
    /\ scn = s
    /\ \E a \in ArgKinds(s) : \E props \in PropsOf(a, s, InitialProps(s)) :
         LET mat == Materialize(KeyOrder, props, <<ImplObj(cBuiltin, 1)>>, <<>>, 1) IN
         /\ fns = mat.fns
         /\ objs = mat.objs
         /\ snaps = << mat.obj >>
         /\ hist = << [pre |-> 0, post |-> 1, props |-> mat.obj,
                       was |-> Empty, res |-> mat.obj,
                       arg |-> a, error |-> "none"] >>
    /\ cur = IF s = "flat" THEN 0 ELSE 1
    /\ stack = <<>>
    /\ ret = Undef
    /\ out = <<>>
    /\ err = FALSE
    /\ trace = <<>>
    /\ call = NoCall
    /\ nCalls = 0
    /\ passed = {}
    /\ firstOut = None
    /\ origRuns = 0
    /\ counter = 0

Init == InitWith("api")
InitMemo == InitWith("memo")
InitHandles == InitWith("memo") \/ InitWith("memo0")
InitPlugin == InitWith("plugin")
InitHolder == InitWith("holder")

(* How many updateState calls a script makes at most: the script that      *)
(* overrides, changes a number and overrides again makes one more.         *)
UpdateLimit == IF scn = "binding" THEN MaxBindingUpdates ELSE MaxUpdates

(* api.updateState(props) *)
UpdateState ==
    /\ stack = <<>>
    /\ call = NoCall
    /\ Len(hist) <= UpdateLimit
    /\ Counting => nCalls = 0
    /\ \E a \in ArgKinds(scn) : \E props \in PropsOf(a, scn, UpdateProps(scn)) :
         LET u == Len(hist) + 1
             mat == Materialize(KeyOrder, props, fns, objs, u)
             was == IF cur = 0 THEN Empty ELSE snaps[cur]
             n == TargetState(snaps, cur, SomeWrap(mat.obj, snaps, cur))
             r == ComposeKeys(KeyOrder, mat.obj, snaps, mat.fns, was, cur, n, u)
         IN  /\ snaps' = IF n > Len(snaps) THEN Append(snaps, r.st)
                         ELSE IF n = 0 THEN snaps
                         ELSE [snaps EXCEPT ![n] = r.st]
             /\ fns' = r.fns
             /\ objs' = mat.objs
             /\ cur' = n
             /\ hist' = Append(hist, [pre |-> cur, post |-> n, props |-> mat.obj,
                                      was |-> was, res |-> r.st,
                                      arg |-> a, error |-> "none"])
    /\ UNCHANGED <<stack, ret, out, err, trace, call, nCalls, passed, firstOut,
                   origRuns, counter, scn>>


-----------------------------------------------------------------------------
(* Calls.  A frame is a function object being run, its `this`, the         *)
(* arguments it received and where it stands: "start" before its body,     *)
(* "wait" once it has called its previous implementation.                  *)
Frame(f, self, args, pc) ==
    [fn |-> f, self |-> self, args |-> args, pc |-> pc, acc |-> Undef]

(* One entry of the trace: a wrapper was called ("wrap"), a bound function *)
(* was called ("bound"), or an implementation started ("impl") with `this` *)
(* = self, having received args and reading this.x as x.                   *)
Ev(kind, f, self, args, x) ==
    [kind |-> kind, fn |-> f, self |-> self, args |-> args, x |-> x]

Top == stack[Len(stack)]
Pop == SubSeq(stack, 1, Len(stack) - 1)
ReplaceTop(fr) == Append(Pop, fr)

(* The i-th declared parameter of the running implementation. *)
Param(args, i) == IF i <= Len(args) THEN args[i] ELSE Undef

(* The parameter an implementation declares for its previous               *)
(* implementation: the one after its m own parameters.                     *)
PrevParam(c, args) == Param(args, Code[c].m + 1)

(* r + 1 in JavaScript: a number; a string with 1 appended; NaN when r is  *)
(* undefined or NaN.                                                       *)
Plus1(v) ==
    CASE v.t = "data" -> Data(v.v + 1)
      [] v.t = "str" -> Str(v.v + 1)
      [] OTHER -> NaN

(* a + b in JavaScript, for numbers; NaN when one is not a number. *)
Sum(a, b) == IF a.t = "data" /\ b.t = "data" THEN Data(a.v + b.v) ELSE NaN

(* Math.floor(Math.random() * seed): the values it can take. *)
RandomBelow(seed) ==
    IF seed.t = "data" /\ seed.v > 0 THEN { Data(r) : r \in 0..(seed.v - 1) }
    ELSE IF seed.t = "data" THEN { Data(0) }
    ELSE { NaN }

(* The receivers a host can call on: the state objects getState() returns  *)
(* now or returned earlier.  Every state object was the current one when   *)
(* it was created, and a holder that called getState() then still has it   *)
(* (part_008 line 28, snapshot1).  The memo script calls on the state it   *)
(* gets after its updates.                                                 *)
Receivers ==
    IF Counting THEN {getState}
    ELSE IF Engine = "flat" THEN 2..Len(snaps)
    ELSE 1..Len(snaps)


(* state.key(...args) on a state object the host holds: the scripts call   *)
(* the operations the object itself holds.                                 *)
CallMethod ==
    /\ stack = <<>>
    /\ call = NoCall
    /\ Counting => nCalls < MaxCalls /\ Len(hist) > 1
    /\ \E s \in Receivers, k \in Keys, args \in CallArgs(scn) :
         /\ k \in OwnKeys(snaps[s])
         /\ IsFunction(Get(snaps[s], k))
         /\ stack' = << Frame(Get(snaps[s], k).v, s, args, "start") >>
         /\ call' = [on |-> s, key |-> k, args |-> args]
    /\ nCalls' = IF Counting THEN nCalls + 1 ELSE nCalls
    /\ trace' = <<>>
    /\ ret' = Undef
    /\ out' = <<>>
    /\ err' = FALSE
    /\ UNCHANGED <<snaps, fns, objs, cur, hist, passed, firstOut, origRuns,
                   counter, scn>>

(* console.log of each of the values, in order. *)
Log(lines) == out' = out \o lines

(* The running frame returns v to its caller, having logged lines. *)
Return(v, lines) ==
    /\ stack' = Pop
    /\ ret' = v
    /\ err' = FALSE
    /\ Log(lines)
    /\ firstOut' = IF Counting /\ Len(stack) = 1 /\ firstOut = None
                   THEN out \o lines ELSE firstOut

(* An uncaught error (TypeError: calling what is not a function, reading a *)
(* field of undefined; RangeError) unwinds the whole stack: no layer of    *)
(* the scripts catches.                                                    *)
Throw(lines) ==
    /\ stack' = <<>>
    /\ ret' = Undef
    /\ err' = TRUE
    /\ Log(lines)
    /\ UNCHANGED firstOut

(* The running frame calls prev(args) and waits for it. *)
CallPrev(prev, args, lines) ==
    /\ stack' = Append(ReplaceTop([Top EXCEPT !.pc = "wait"]),
                       Frame(prev.v, 0, args, "start"))
    /\ Log(lines)
    /\ UNCHANGED <<ret, err, firstOut>>

(* prev(...) in a body: a call when prev is a function, else a TypeError. *)
Delegate(prev, args, lines) ==
    IF IsFunction(prev) THEN CallPrev(prev, args, lines) ELSE Throw(lines)

(* The wrapper of part_000 lines 12-14 runs:                               *)
(*     return newFn.apply(newState, args.concat(oldFn))                    *)
RunWrapper ==
    /\ stack # <<>>
    /\ fns[Top.fn].kind = "wrap"
    /\ LET w == Top.fn
           hp == HandleAtCall(fns, w)
           newFn == fns[w].fn
       IN  /\ fns' = hp.fns
           /\ passed' = IF Counting /\ newFn # 0 THEN passed \cup {<<w, hp.h>>}
                        ELSE passed
           /\ trace' = Append(trace, Ev("wrap", w, Top.self, Top.args, Undef))
           /\ IF newFn = 0
              THEN Throw(<<>>)       \* currFn.apply is not a function
              ELSE /\ stack' = ReplaceTop(Frame(newFn, WrapperThis(fns, w, cur),
                                      LayerArgs(Top.args, Code[fns[newFn].code].len,
                                                Fn(hp.h)), "start"))
                   /\ UNCHANGED <<ret, out, err, firstOut>>
    /\ UNCHANGED <<snaps, objs, cur, hist, call, nCalls, origRuns, counter, scn>>

(* A bound function (line 15, f.bind(currentState)) runs: it calls its     *)
(* target with the bound `this` and the arguments it was given.            *)
RunBound ==
    /\ stack # <<>>
    /\ fns[Top.fn].kind = "bound"
    /\ stack' = ReplaceTop(Frame(fns[Top.fn].fn, fns[Top.fn].self, Top.args, "start"))
    /\ trace' = Append(trace, Ev("bound", Top.fn, fns[Top.fn].self, Top.args, Undef))
    /\ UNCHANGED <<snaps, fns, objs, cur, hist, ret, out, err, call, nCalls, passed,
                   firstOut, origRuns, counter, scn>>

(* The running frame calls this.key(args), keeps acc and waits            *)
(* (part_001 line 26: this.expensiveComputation(n - 1)).                   *)
CallThis(k, args, acc, lines) ==
    LET method == IF Top.self = 0 THEN Undef ELSE Get(snaps[Top.self], k) IN
    IF IsFunction(method)
    THEN /\ stack' = Append(ReplaceTop([Top EXCEPT !.pc = "wait", !.acc = acc]),
                            Frame(method.v, Top.self, args, "start"))
         /\ Log(lines)
         /\ UNCHANGED <<ret, err, firstOut>>
    ELSE Throw(lines)

(* this.x of the running frame. *)
ThisX == IF Top.self = 0 THEN Undef ELSE Get(snaps[Top.self], "x")

(* An implementation starts: its body up to its call of prev, or to its    *)
(* return when it makes none.                                              *)
StartImpl ==
    /\ stack # <<>>
    /\ fns[Top.fn].kind = "impl"
    /\ Top.pc = "start"
    /\ LET c == fns[Top.fn].code
           body == Code[c].body
           prev == PrevParam(c, Top.args)
           own == [i \in 1..Code[c].m |-> Param(Top.args, i)]
           x == ThisX
       IN  /\ trace' = Append(trace, Ev("impl", Top.fn, Top.self, Top.args, x))
           /\ origRuns' = IF body = "rand" THEN origRuns + 1 ELSE origRuns
           /\ counter' = IF body = "inc" THEN counter + 1 ELSE counter
           /\ snaps' = IF body = "set" /\ Top.self # 0
                       THEN [snaps EXCEPT ![Top.self]["x"] = Param(Top.args, 1)]
                       ELSE IF body = "inc" /\ Top.self # 0
                       THEN [snaps EXCEPT ![Top.self]["x"] = Plus1(x)]
                       ELSE snaps
           /\ CASE body = "read" -> Return(x, <<>>)
                [] body = "show" -> Return(Undef, <<x>>)
                [] body = "builtin" -> Return(ObjectString, <<>>)
                [] body = "set" -> Return(Undef, <<>>)
                [] body = "mid" ->
                     Return(Undef, <<Param(Top.args, 1), Param(Top.args, 2),
                                     Param(Top.args, 3)>>)
                [] body \in {"chain", "deleg", "succ", "inc", "time"} ->
                     Delegate(prev, own, <<>>)
                [] body = "cache" ->
                     \* this.cache undefined: TypeError at line 47
                     IF x.t # "obj" THEN Throw(<<>>)
                     ELSE IF ~Falsy(CacheGet(objs, x, own[1]))
                     THEN Return(CacheGet(objs, x, own[1]), <<Msg("hit", own[1])>>)
                     ELSE Delegate(prev, own, <<Msg("miss", own[1])>>)
                [] body = "fib" ->
                     \* n <= 1 is false for undefined: the recursion never ends
                     \* and the engine throws RangeError
                     IF own[1].t # "data" THEN Throw(<<Msg("computing", own[1])>>)
                     ELSE IF own[1].v <= 1
                     THEN Return(own[1], <<Msg("computing", own[1])>>)
                     ELSE CallThis("f", <<Data(own[1].v - 1)>>, Undef,
                                   <<Msg("computing", own[1])>>)
                [] body = "rand" -> \E r \in RandomBelow(own[1]) : Return(r, <<>>)
                [] body = "memo" ->
                     \* undefined.cachedResult is a TypeError; a value that is
                     \* not a function has no cachedResult and cannot be called
                     IF ~IsFunction(prev) THEN Throw(<<>>)
                     ELSE IF Falsy(fns[prev.v].cached) THEN CallPrev(prev, own, <<>>)
                     ELSE Return(Undef, <<fns[prev.v].cached>>)
    /\ UNCHANGED <<fns, objs, cur, hist, call, nCalls, passed, scn>>

(* prev has returned ret: the rest of the body of the implementation that  *)
(* called it.                                                              *)
ResumeImpl ==
    /\ stack # <<>>
    /\ fns[Top.fn].kind = "impl"
    /\ Top.pc = "wait"
    /\ LET c == fns[Top.fn].code
           body == Code[c].body
           prev == PrevParam(c, Top.args)
       IN  CASE body = "memo" ->
                  /\ fns' = [fns EXCEPT ![prev.v].cached = ret]
                  /\ objs' = objs
                  /\ Return(Undef, <<ret>>)
             [] body = "chain" ->
                  /\ UNCHANGED <<fns, objs>>
                  /\ Return(Undef, <<ThisX>>)
             [] body = "succ" ->
                  /\ UNCHANGED <<fns, objs>>
                  /\ Return(Plus1(ret), <<>>)
             [] body = "time" ->
                  /\ UNCHANGED <<fns, objs>>
                  /\ Return(ret, <<Msg("took", Undef)>>)
             [] body = "cache" ->
                  /\ fns' = fns
                  /\ objs' = CachePut(objs, ThisX, Top.args[1], ret)
                  /\ Return(ret, <<>>)
             [] body = "fib" ->
                  /\ UNCHANGED <<fns, objs>>
                  /\ IF Top.acc = Undef
                     THEN CallThis("f", <<Data(Top.args[1].v - 2)>>, ret, <<>>)
                     ELSE Return(Sum(Top.acc, ret), <<>>)
             [] body \in {"deleg", "inc"} ->
                  /\ UNCHANGED <<fns, objs>>
                  /\ Return(ret, <<>>)
    /\ UNCHANGED <<snaps, cur, hist, trace, call, nCalls, passed, origRuns,
                   counter, scn>>

(* The statement that made the call is over; the script goes on to its     *)
(* next statement.                                                         *)
EndCall ==
    /\ stack = <<>>
    /\ call # NoCall
    /\ call' = NoCall
    /\ trace' = <<>>
    /\ ret' = Undef
    /\ out' = <<>>
    /\ err' = FALSE
    /\ UNCHANGED <<snaps, fns, objs, cur, hist, stack, nCalls, passed, firstOut,
                   origRuns, counter, scn>>

(* A holder of a state object assigns, adds or deletes its entry x:        *)
(* state.x = 7, delete state.x.                                            *)
HolderWrite ==
    /\ stack = <<>>
    /\ call = NoCall
    /\ \E s \in Receivers, v \in {Data(7), Absent} :
         /\ snaps[s]["x"] # v
         /\ snaps' = [snaps EXCEPT ![s]["x"] = v]
    /\ UNCHANGED <<fns, objs, cur, hist, stack, ret, out, err, trace, call, nCalls,
                   passed, firstOut, origRuns, counter, scn>>

Next ==
    \/ UpdateState
    \/ CallMethod
    \/ RunWrapper
    \/ RunBound
    \/ StartImpl
    \/ ResumeImpl
    \/ EndCall

Spec == Init /\ [][Next]_vars
SpecMemo == InitMemo /\ [][Next]_vars
SpecHandles == InitHandles /\ [][Next]_vars
SpecPlugin == InitPlugin /\ [][Next]_vars

NextHolder ==
    \/ Next
    \/ HolderWrite

SpecHolder == InitHolder /\ [][NextHolder]_vars

(* The counting script (two overrides of count(), then calls), the script  *)
(* that passes what is not a mapping, and the scripts of the other         *)
(* engines.                                                                *)
InitCount == InitWith("count")
SpecCount == InitCount /\ [][Next]_vars

InitArgs == InitWith("args")
SpecArgs == InitArgs /\ [][Next]_vars

InitLive == InitWith("live")
SpecLive == InitLive /\ [][Next]_vars

InitInPlace == \E s \in {"inplace", "state", "arity", "decorator"} : InitWith(s)
SpecInPlace == InitInPlace /\ [][Next]_vars

(* The script that overrides a function, also after an update that only    *)
(* changed a number, on the createApi of part_000.                         *)
InitBinding == InitWith("binding")
SpecBinding == InitBinding /\ [][Next]_vars

InitFlat == InitWith("flat")
SpecFlat == InitFlat /\ [][Next]_vars

(* The script of part_001: a base that calls itself through this, under a  *)
(* timing layer and a caching layer.                                       *)
InitFib == InitWith("fib")
SpecFib == InitFib /\ [][Next]_vars


-----------------------------------------------------------------------------
(* Reading the history and the trace. *)

(* The values the host has supplied under key k, oldest first: createApi's *)
(* and then each updateState's that names k.                               *)
RECURSIVE SuppliedUpTo(_, _)
SuppliedUpTo(k, i) ==
    IF i = 0 THEN <<>>
    ELSE IF hist[i].props[k] = Absent THEN SuppliedUpTo(k, i - 1)
    ELSE Append(SuppliedUpTo(k, i - 1), hist[i].props[k])
Supplied(k) == SuppliedUpTo(k, Len(hist))

(* How many of the last values of a sequence are functions. *)
RECURSIVE TrailingFns(_)
TrailingFns(sq) ==
    IF sq = <<>> \/ ~IsFunction(sq[Len(sq)]) THEN 0
    ELSE 1 + TrailingFns(SubSeq(sq, 1, Len(sq) - 1))

(* The positions in the trace at which an implementation started. *)
RECURSIVE ImplStartsUpTo(_)
ImplStartsUpTo(i) ==
    IF i = 0 THEN <<>>
    ELSE IF trace[i].kind = "impl" THEN Append(ImplStartsUpTo(i - 1), i)
    ELSE ImplStartsUpTo(i - 1)
ImplStarts == ImplStartsUpTo(Len(trace))

Done == stack = <<>> /\ call # NoCall
IsUpdateStep == Len(hist') = Len(hist) + 1

-----------------------------------------------------------------------------
(* C1 (snapshot isolation): an updateState call leaves every state object  *)
(* that existed before it (each one a holder may have got from getState()) *)
(* with exactly the keys and values it had, whatever props holds, and      *)
(* makes a new object the current one: only later getState() calls return  *)
(* the new object.                                                         *)
C1_SnapshotIsolation ==
    [][ IsUpdateStep =>
          /\ \A s \in 1..Len(snaps) : snaps'[s] = snaps[s]
          /\ getState' \notin 1..Len(snaps)
          /\ snaps'[getState'] = hist'[Len(hist')].res ]_vars

(* An update that changed a number, wrapped a function and added nothing   *)
(* to the object that was current before it.                               *)
C1_Witness ==
    \E i \in 2..Len(hist) :
        /\ hist[i].props["x"] = Data(2)
        /\ IsFunction(hist[i].props["f"])
        /\ snaps[hist[i].pre]["x"] = Data(1)
        /\ snaps[hist[i].post]["x"] = Data(2)
        /\ snaps[hist[i].pre]["f"] # snaps[hist[i].post]["f"]
        /\ getState = hist[i].post

-----------------------------------------------------------------------------
(* The state object that was current just before the update that made the *)
(* handle h, and the first implementation that starts after event i.       *)
HandleBase(h) == hist[fns[h].born].pre

FirstImplAfter(i) ==
    IF \E j \in (i + 1)..Len(trace) : trace[j].kind = "impl"
    THEN CHOOSE j \in (i + 1)..Len(trace) :
             /\ trace[j].kind = "impl"
             /\ \A l \in (i + 1)..(j - 1) : trace[l].kind # "impl"
    ELSE 0

C2_Scenario ==
    /\ Len(hist) = 2
    /\ hist[1].props["x"] = Data(1)
    /\ IsFunction(hist[1].props["f"])
    /\ fns[hist[1].props["f"].v].code = cRead
    /\ hist[2].props["x"] = Data(2)
    /\ IsFunction(hist[2].props["f"])
    /\ fns[hist[2].props["f"].v].code = cSucc
    /\ Done
    /\ call.on = getState
    /\ call.key = "f"
    /\ call.args = <<>>

(* C2 (previous-binding stability), as claimed: whenever a handle is       *)
(* called, the function f it stands for evaluates with `this` = the state  *)
(* object that was current just before the update that made the handle,    *)
(* and reads this.x at the value x had before that update; and             *)
(* {x:1, f(){return this.x}} updated with {x:2, f(prev){return prev()+1}}  *)
(* yields 2 from getState().f().                                           *)
C2_PreUpdateSnapshot ==
    /\ \A i \in 1..Len(trace) :
          (trace[i].kind = "bound" /\ FirstImplAfter(i) # 0) =>
              LET f == trace[FirstImplAfter(i)] IN
              /\ f.self = HandleBase(trace[i].fn)
              /\ f.x = Get(hist[fns[trace[i].fn].born].was, "x")
    /\ C2_Scenario => ~err /\ ret = Data(2)

(* C2 as amended: the handle an override receives is the replaced function *)
(* bound to the state object that was current just before the update.      *)
(* When the replaced function is one the host supplied, it runs with that  *)
(* object as `this` and reads this.x at its pre-update value.  When it is  *)
(* itself a composed operation, the bound `this` is ignored: its layer     *)
(* runs with the state object made by the update that installed that       *)
(* layer, which is the pre-update object or an older one, and reads x as   *)
(* that object holds it.  Nothing beneath a handle runs on an object made  *)
(* by the handle's update or a later one, and the scenario yields 2.       *)
C2_PreviousBinding ==
    /\ \A i \in 1..Len(trace) : trace[i].kind = "bound" =>
          /\ trace[i].self = HandleBase(trace[i].fn)
          /\ \A j \in (i + 1)..Len(trace) :
                /\ trace[j].self <= HandleBase(trace[i].fn)
                /\ (j = i + 1 /\ trace[j].kind = "impl") =>
                      /\ trace[j].self = HandleBase(trace[i].fn)
                      /\ trace[j].x = Get(hist[fns[trace[i].fn].born].was, "x")
                /\ (j = i + 2 /\ trace[i + 1].kind = "wrap") =>
                      /\ trace[j].kind = "impl"
                      /\ trace[j].fn = fns[trace[i + 1].fn].fn
                      /\ trace[j].self = hist[fns[trace[i + 1].fn].born].post
                      /\ trace[j].x = Get(hist[fns[trace[i + 1].fn].born].res, "x")
    /\ C2_Scenario => ~err /\ ret = Data(2)

(* An override, then x set to 2, then an override with x set to 3: the     *)
(* call on the current state has run the newest layer with x = 3 and,      *)
(* through its handle (bound to the object where x = 2), the older layer   *)
(* on its own object, where x = 1.                                         *)
C2_Witness ==
    /\ scn = "binding"
    /\ Len(hist) = 4
    /\ IsFunction(hist[2].props["f"])
    /\ hist[3].props["f"] = Absent
    /\ hist[3].props["x"] = Data(2)
    /\ IsFunction(hist[4].props["f"])
    /\ hist[4].props["x"] = Data(3)
    /\ Done
    /\ ~err
    /\ call.on = getState
    /\ Len(trace) >= 4
    /\ trace[2].x = Data(3)
    /\ trace[3].kind = "bound"
    /\ Get(snaps[trace[3].self], "x") = Data(2)
    /\ trace[4].kind = "wrap"
    /\ trace[5].kind = "impl"
    /\ trace[5].x = Data(1)

(* The scenario has run, and the original read 1 while the current state   *)
(* holds 2.                                                                *)
C2_WitnessScenario ==
    /\ C2_Scenario
    /\ ret = Data(2)
    /\ Len(trace) = 4
    /\ trace[3].kind = "bound"
    /\ trace[4].kind = "impl"
    /\ trace[4].x = Data(1)
    /\ Get(snaps[getState], "x") = Data(2)

-----------------------------------------------------------------------------
(* C3 (chain ordering): when the last values supplied under the called key *)
(* are functions f, g, h (h the newest), a call of the key on the current  *)
(* state starts h first, then g, then f: the j-th implementation to start  *)
(* is the j-th newest.  An implementation other than the first starts only *)
(* through the handle the one before it received, and when h does not call *)
(* its handle, h is the only implementation that starts.                   *)
C3_ChainOrdering ==
    (call # NoCall /\ call.on = getState) =>
        LET S == Supplied(call.key)
            n == Len(S)
            I == ImplStarts
        IN  TrailingFns(S) >= 3 =>
              /\ \A j \in 1..Len(I) : j <= TrailingFns(S) =>
                    trace[I[j]].fn = S[n - j + 1].v
              /\ \A j \in 2..Len(I) :
                    LET p == trace[I[j - 1]] IN
                    /\ I[j - 1] + 1 < I[j]
                    /\ trace[I[j - 1] + 1].kind = "bound"
                    /\ PrevParam(fns[p.fn].code, p.args) = Fn(trace[I[j - 1] + 1].fn)
              /\ (Code[fns[S[n].v].code].body = "mid") => Len(I) <= 1

(* A call on the current state that started three implementations, newest  *)
(* first, and returned.                                                    *)
C3_Witness ==
    /\ Done
    /\ call.on = getState
    /\ TrailingFns(Supplied(call.key)) = 3
    /\ Len(ImplStarts) = 3
    /\ trace[ImplStarts[1]].fn > trace[ImplStarts[2]].fn
    /\ trace[ImplStarts[2]].fn > trace[ImplStarts[3]].fn
    /\ ~err

(* A call on the current state whose newest implementation never calls its *)
(* handle: it alone has started.                                           *)
C3_WitnessSkip ==
    /\ Done
    /\ call.on = getState
    /\ TrailingFns(Supplied(call.key)) = 3
    /\ Code[fns[Supplied(call.key)[3].v].code].body = "mid"
    /\ Len(ImplStarts) = 1

-----------------------------------------------------------------------------
(* C4 (always-append): a composed operation called with k arguments calls  *)
(* its new implementation with exactly k + 1: the caller's k arguments     *)
(* unchanged and in order, then the handle of the function it replaced.    *)
C4_AlwaysAppend ==
    \A i \in 1..Len(trace) : (trace[i].kind = "wrap" /\ i < Len(trace)) =>
        LET k == Len(trace[i].args)
            got == trace[i + 1].args
        IN  /\ trace[i + 1].kind = "impl"
            /\ trace[i + 1].fn = fns[trace[i].fn].fn
            /\ Len(got) = k + 1
            /\ \A j \in 1..k : got[j] = trace[i].args[j]
            /\ IsFunction(got[k + 1])
            /\ fns[got[k + 1].v].kind = "bound"
            /\ fns[got[k + 1].v].born = fns[trace[i].fn].born

(* A composed operation was called with two arguments and its new          *)
(* implementation received three, the third a function.                    *)
C4_Witness ==
    /\ Len(trace) >= 2
    /\ trace[1].kind = "wrap"
    /\ trace[1].args = ArgSeq(2)
    /\ trace[2].kind = "impl"
    /\ Len(trace[2].args) = 3
    /\ IsFunction(trace[2].args[3])


-----------------------------------------------------------------------------
(* C5 (README createPlugin, lines 45-56 and 97-156): a new implementation  *)
(* declared method(a1, ..., am, prev) finds the previous implementation in *)
(* its last declared parameter prev on every call that supplies at most m *)
(* arguments: also when the caller supplies fewer than m, as the HTTP      *)
(* client example does with client.request(url).                           *)
DeclaresPrev(c) == Code[c].len = Code[c].m + 1

C5_PrevInLastDeclared ==
    \A i \in 1..Len(trace) : (trace[i].kind = "wrap" /\ i < Len(trace)) =>
        LET ev == trace[i + 1]
            c == fns[ev.fn].code
        IN  (DeclaresPrev(c) /\ Len(trace[i].args) <= Code[c].m) =>
                PrevParam(c, ev.args) = Fn(fns[trace[i].fn].handle)

-----------------------------------------------------------------------------
(* C6 (handle identity): a wrapper passes the same handle object on every  *)
(* call, the one made when updateState installed it, and a field of a      *)
(* handle changes only when the layer that received the handle assigns it: *)
(* what a layer wrote on its handle in one call is on the handle in every  *)
(* later call of that layer.                                               *)
WritesHandle(h) ==
    /\ stack # <<>>
    /\ fns[Top.fn].kind = "impl"
    /\ Top.pc = "wait"
    /\ Code[fns[Top.fn].code].body = "memo"
    /\ PrevParam(fns[Top.fn].code, Top.args) = Fn(h)

C6_HandleIdentity ==
    /\ [](/\ \A p \in passed, q \in passed : p[1] = q[1] => p[2] = q[2]
          /\ \A p \in passed :
                /\ p[2] = fns[p[1]].handle
                /\ fns[p[2]].born = fns[p[1]].born)
    /\ [][ \A h \in 1..Len(fns) :
             fns'[h].cached # fns[h].cached => WritesHandle(h) ]_vars

(* The second call of the memoizing layer of part_000's createApi has      *)
(* logged what the first call stored on the handle, without running the    *)
(* original again.                                                         *)
C6_Witness ==
    /\ scn = "memo0"
    /\ Len(hist) = 2
    /\ nCalls = 2
    /\ Done
    /\ Len(trace) = 2
    /\ origRuns = 1
    /\ out = firstOut
    /\ Len(out) = 1
    /\ out[1].t = "data"
    /\ out[1].v > 0
    /\ passed = { <<snaps[getState]["f"].v, fns[snaps[getState]["f"].v].handle>> }

-----------------------------------------------------------------------------
(* C7 (memoizing override): with                                           *)
(*     if (!prev.cached) prev.cached = prev(seed); console.log(prev.cached)*)
(* installed once over an original that yields any of 0..8, after every    *)
(* call of the script the original has run exactly once and the call has   *)
(* yielded (logged) what the first call yielded.                           *)
C7_MemoOnce ==
    (scn = "memo" /\ Len(hist) = 2 /\ Done /\ call.key = "f") =>
        /\ origRuns = 1
        /\ out = firstOut

-----------------------------------------------------------------------------
(* C8 (replace, not wrap): when the entry stored under a key is not a      *)
(* function (a number, or no entry and nothing inherited under that name), *)
(* or the incoming value is not a function, updateState stores exactly the *)
(* incoming value; a function stored that way is later called with the     *)
(* caller's arguments only.  So after function, number, function on one    *)
(* key the last function is stored as supplied and gets no handle.         *)
StoredAsIs(i, k) == hist[i].res[k] = hist[i].props[k]

C8_ReplaceNotWrap ==
    /\ \A i \in 2..Len(hist), k \in Keys :
          LET old == hist[i].was[k]
              new == hist[i].props[k]
          IN  (/\ new # Absent
               /\ \/ ~IsFunction(new)
                  \/ (old # Absent /\ ~IsFunction(old))
                  \/ (old = Absent /\ k \notin ProtoKeys))
              => /\ StoredAsIs(i, k)
                 /\ snaps[hist[i].post][k] = new
    /\ (/\ call # NoCall
        /\ trace # <<>>
        /\ \E i \in 1..Len(hist) :
              /\ hist[i].post = call.on
              /\ LET S == SuppliedUpTo(call.key, i) IN
                    /\ S # <<>>
                    /\ IsFunction(S[Len(S)])
                    /\ TrailingFns(S) = 1
                    /\ Len(S) = 1 => call.key \notin ProtoKeys)
       => /\ trace[1].kind = "impl"
          /\ trace[1].args = call.args
          /\ \A j \in 1..Len(trace) : trace[j].kind = "impl"

(* Function, then the number 5, then a function again under f: the last    *)
(* one is stored as supplied and has been called without a handle.         *)
C8_Witness ==
    /\ Len(hist) = 3
    /\ IsFunction(hist[1].props["f"])
    /\ hist[2].props["f"] = Data(5)
    /\ IsFunction(hist[3].props["f"])
    /\ snaps[getState]["f"] = hist[3].props["f"]
    /\ Done
    /\ call.on = getState
    /\ call.key = "f"
    /\ call.args = ArgSeq(2)
    /\ trace[1].args = ArgSeq(2)

-----------------------------------------------------------------------------
(* C9 (README Logger, lines 158-207): once a setter called on a state      *)
(* object has assigned x there, every layer of a composed method called on *)
(* that same object reads that value through this.x, the layers installed  *)
(* by earlier updates included.                                            *)
SetOn(s) == \E i \in 1..Len(hist) :
    hist[i].post = s /\ hist[i].res["x"] # snaps[s]["x"]

C9_SetterSeenByEveryLayer ==
    (call # NoCall /\ call.key = "f" /\ SetOn(call.on)) =>
        \A i \in 1..Len(trace) :
            trace[i].kind = "impl" => trace[i].x = snaps[call.on]["x"]


-----------------------------------------------------------------------------
(* C10 (read-only view): an entry a holder assigns, adds or deletes on the *)
(* object getState() returned does not change what getState() returns     *)
(* afterwards.                                                             *)
IsHolderWrite == stack = <<>> /\ stack' = <<>> /\ snaps' # snaps /\ hist' = hist

C10_ReadOnlyView ==
    [][ IsHolderWrite => snaps'[getState'] = snaps[getState] ]_vars

(* C10 as amended: getState() returns the current state object itself.  A  *)
(* holder's write changes that one object: it is what getState() returns   *)
(* while the object is current and what the layers whose `this` is that    *)
(* object read; the object an update made and the object that was current  *)
(* before that update are two objects, a write on one leaves the other as  *)
(* it was, and every layer reads this.x from its own `this` object.        *)
C10_LiveObject ==
    /\ [][ IsHolderWrite =>
             /\ getState' = getState
             /\ \E s \in 1..Len(snaps) :
                   /\ snaps'[s] # snaps[s]
                   /\ \A t \in 1..Len(snaps) : t # s => snaps'[t] = snaps[t]
             /\ \A i \in 2..Len(hist) :
                   /\ snaps'[hist[i].pre] # snaps[hist[i].pre]
                         => snaps'[hist[i].post] = snaps[hist[i].post]
                   /\ snaps'[hist[i].post] # snaps[hist[i].post]
                         => snaps'[hist[i].pre] = snaps[hist[i].pre] ]_vars
    /\ [](\A i \in 1..Len(trace) : trace[i].kind = "impl" =>
             trace[i].x = Get(snaps[trace[i].self], "x"))

(* The holder wrote 7 on the current object, which an update had made with *)
(* x = 2; a call on it then ran a layer that read 7 and, beneath the       *)
(* handle, the original that read 1 from the earlier object.               *)
C10_Witness ==
    /\ Len(hist) = 2
    /\ hist[2].res["x"] = Data(2)
    /\ snaps[getState]["x"] = Data(7)
    /\ snaps[1]["x"] = Data(1)
    /\ Done
    /\ call.on = getState
    /\ Len(ImplStarts) = 2
    /\ trace[ImplStarts[1]].x = Data(7)
    /\ trace[ImplStarts[2]].x = Data(1)

-----------------------------------------------------------------------------
(* C11 (two overrides of count()): with count() overridden twice, each     *)
(* override incrementing the shared counter and then calling its handle,   *)
(* one call of count() on the current state leaves the counter at 2: the   *)
(* variable outside the container, and the data field x (0 at first) that  *)
(* each layer increments through this and that is read from the current    *)
(* state afterwards.                                                       *)
C11_Scenario ==
    /\ scn = "count"
    /\ Len(hist) = 3
    /\ \A i \in 2..3 : /\ IsFunction(hist[i].props["f"])
                       /\ fns[hist[i].props["f"].v].code = cInc
    /\ nCalls = 1
    /\ Done
    /\ call.on = getState
    /\ call.key = "f"

C11_SharedCounter ==
    C11_Scenario =>
        /\ ~err
        /\ counter = 2
        /\ Get(snaps[getState], "x") = Data(2)

-----------------------------------------------------------------------------
(* C12 (InvalidArgument): createApi and updateState called with what is    *)
(* not a mapping (undefined, null, a number, a string) fail with an        *)
(* InvalidArgument error, and after a failed updateState the current state *)
(* is the same object with the same entries as before the call.            *)
C12_InvalidArgument ==
    \A i \in 1..Len(hist) : hist[i].arg \in NonMappings =>
        /\ hist[i].error = "InvalidArgument"
        /\ i > 1 => /\ hist[i].post = hist[i].pre
                    /\ hist[i].res = hist[i].was

-----------------------------------------------------------------------------
(* C13 (arity-based injection, part_005): a composed operation called with *)
(* n arguments whose new implementation declares p parameters calls it,    *)
(* when p > n, with the caller's n arguments unchanged in the first n      *)
(* places and the previous implementation in place p, the last; when       *)
(* p <= n, with exactly the caller's n arguments and no handle.            *)
C13_ArityBased ==
    scn = "arity" =>
        \A i \in 1..Len(trace) : (trace[i].kind = "wrap" /\ i < Len(trace)) =>
            LET n == Len(trace[i].args)
                got == trace[i + 1].args
                p == Code[fns[trace[i + 1].fn].code].len
            IN  /\ trace[i + 1].kind = "impl"
                /\ trace[i + 1].fn = fns[trace[i].fn].fn
                /\ p > n =>
                      /\ Len(got) = p
                      /\ \A j \in 1..n : got[j] = trace[i].args[j]
                      /\ got[p] = Fn(fns[trace[i].fn].handle)
                      /\ fns[got[p].v].kind = "bound"
                      /\ fns[got[p].v].born = fns[trace[i].fn].born
                /\ p <= n => got = trace[i].args

(* method(a, b, prev) called with one argument received it, undefined and  *)
(* the handle, and the call returned.                                      *)
C13_Witness ==
    /\ scn = "arity"
    /\ Done
    /\ ~err
    /\ Len(trace) >= 2
    /\ trace[1].kind = "wrap"
    /\ trace[1].args = ArgSeq(1)
    /\ fns[trace[2].fn].code = cDeleg2
    /\ trace[2].args = <<Data(3), Undef, Fn(fns[trace[1].fn].handle)>>

(* method(a, prev) called with two arguments received exactly those two.   *)
C13_WitnessNoHandle ==
    /\ scn = "arity"
    /\ Done
    /\ Len(trace) >= 2
    /\ trace[1].kind = "wrap"
    /\ trace[1].args = ArgSeq(2)
    /\ fns[trace[2].fn].code = cDeleg1
    /\ trace[2].args = ArgSeq(2)

-----------------------------------------------------------------------------
(* C14 (layer context, part_002 and part_008 lines 1-20): the new          *)
(* implementation a wrapper calls always runs with this = the state object *)
(* made by the updateState call that installed the wrapper, also after     *)
(* later updates, whether the wrapper is reached through a newer layer's   *)
(* handle or through a state object got earlier.                           *)
C14_LayerThis ==
    scn = "live" =>
        \A i \in 1..Len(trace) : (trace[i].kind = "wrap" /\ i < Len(trace)) =>
            /\ trace[i + 1].kind = "impl"
            /\ trace[i + 1].self = hist[fns[trace[i].fn].born].post

-----------------------------------------------------------------------------
(* C15 (handle made once, index.js lines 1-21): every call of a composed   *)
(* operation passes the same handle object, made by the updateState call   *)
(* that installed the wrap, so the field a layer wrote on its handle in    *)
(* one call is on the handle it receives in the next.                      *)
C15_HandleOncePerUpdate ==
    scn = "decorator" =>
        /\ \A p \in passed, q \in passed : p[1] = q[1] => p[2] = q[2]
        /\ \A i \in 1..Len(trace) :
              (/\ trace[i].kind = "impl"
               /\ Code[fns[trace[i].fn].code].body = "memo"
               /\ nCalls > 1
               /\ IsFunction(PrevParam(fns[trace[i].fn].code, trace[i].args)))
              => fns[PrevParam(fns[trace[i].fn].code, trace[i].args).v].cached # Undef

-----------------------------------------------------------------------------
(* C16 (createApi of index.js lines 40-60): a second updateState that      *)
(* overrides the same function key composes against the operation the      *)
(* first one installed: a call of the key on getState() starts the second  *)
(* override, then through its handle the first override, then through its  *)
(* handle the original; the j-th implementation to start is the j-th       *)
(* newest supplied.                                                        *)
C16_ComposesAgainstPreceding ==
    (scn = "flat" /\ call # NoCall /\ call.on = getState) =>
        LET S == Supplied(call.key)
            n == Len(S)
            I == ImplStarts
        IN  TrailingFns(S) >= 3 =>
              \A j \in 1..Len(I) : j <= TrailingFns(S) =>
                  trace[I[j]].fn = S[n - j + 1].v

-----------------------------------------------------------------------------
(* C17 (createState of part_004 and part_006, initializeState of           *)
(* index.js): overriding a key that holds a function with a value that is  *)
(* not a function stores exactly that value under the key, so reading the  *)
(* key afterwards yields the data value and not a callable.                *)
C17_DataReplacesFunction ==
    scn \in {"state", "decorator"} =>
        \A i \in 2..Len(hist), k \in Keys :
            (/\ IsFunction(Get(hist[i].was, k))
             /\ hist[i].props[k] # Absent
             /\ ~IsFunction(hist[i].props[k]))
            => /\ hist[i].res[k] = hist[i].props[k]
               /\ ~IsFunction(hist[i].res[k])
               /\ i = Len(hist) => Get(snaps[getState], k) = hist[i].props[k]

-----------------------------------------------------------------------------
(* C18 (previous-binding stability in the in-place engines part_003,       *)
(* part_007 and part_004): when f is overridden by g while x = 1 and the   *)
(* same or a later update sets x = 2, f called through g's handle still    *)
(* reads x = 1 through this: a host implementation a handle calls reads    *)
(* this.x at the value x had just before the update that made the handle.  *)
C18_InPlaceBinding ==
    scn \in {"inplace", "state"} =>
        \A i \in 1..Len(trace) :
            (/\ trace[i].kind = "bound"
             /\ i < Len(trace)
             /\ trace[i + 1].kind = "impl")
            => trace[i + 1].x = Get(hist[fns[trace[i].fn].born].was, "x")

-----------------------------------------------------------------------------
(* C19 (absent keys, part_000): a function supplied under a key the        *)
(* current state object has no entry for is stored as supplied and later   *)
(* called with the caller's arguments only, whatever the key's name: also  *)
(* a name such as toString that the object inherits and does not contain.  *)
C19_AbsentKeyStoredAsIs ==
    /\ \A i \in 2..Len(hist), k \in Keys :
          (hist[i].was[k] = Absent /\ IsFunction(hist[i].props[k]))
          => StoredAsIs(i, k)
    /\ (/\ call # NoCall
        /\ trace # <<>>
        /\ \E i \in 2..Len(hist) :
              /\ hist[i].post = call.on
              /\ hist[i].was[call.key] = Absent
              /\ IsFunction(hist[i].props[call.key]))
       => /\ trace[1].kind = "impl"
          /\ trace[1].args = call.args

-----------------------------------------------------------------------------
(* C20 (createState of part_004 and part_006): every argument the caller   *)
(* supplies to a composed operation reaches the new implementation         *)
(* unchanged and in its own place, whatever the number of parameters the   *)
(* implementation declares and the number of arguments supplied: passing   *)
(* the previous implementation overwrites and drops none of them.          *)
C20_CallerArgsKept ==
    scn = "state" =>
        \A i \in 1..Len(trace) : (trace[i].kind = "wrap" /\ i < Len(trace)) =>
            LET args == trace[i].args
                got == trace[i + 1].args
            IN  /\ trace[i + 1].kind = "impl"
                /\ Len(got) >= Len(args)
                /\ \A j \in 1..Len(args) : got[j] = args[j]

-----------------------------------------------------------------------------
(* C21 (recursion through this, part_001): when the base implementation    *)
(* calls itself as this.f(n - 1), the call resolves to the base            *)
(* implementation itself, on the same state object: during one call of the *)
(* composed operation on the current state, once the base has started      *)
(* nothing but the base starts, and the body of each override layer        *)
(* (timing, caching) starts at most once, however deep the recursion.      *)
IsLayer(f) == fns[f].kind = "impl" /\ Code[fns[f].code].body \in {"time", "cache"}
IsBase(f) == fns[f].kind = "impl" /\ Code[fns[f].code].body = "fib"
StartsOf(f) == {i \in 1..Len(trace) : trace[i].kind = "impl" /\ trace[i].fn = f}

C21_LayersStartOnce ==
    (scn = "fib" /\ call # NoCall /\ call.on = getState /\ call.key = "f") =>
        /\ \A f \in 1..Len(fns) : IsLayer(f) => Cardinality(StartsOf(f)) <= 1
        /\ \A i \in 1..Len(trace) :
              (trace[i].kind = "impl" /\ IsBase(trace[i].fn)) =>
                  \A j \in (i + 1)..Len(trace) :
                      /\ trace[j].kind = "impl"
                      /\ trace[j].fn = trace[i].fn
                      /\ trace[j].self = trace[i].self

(* f(3) on the current state, under the timing and the caching layer, has  *)
(* returned 2: the base started five times, each layer once.               *)
C21_Witness ==
    /\ scn = "fib"
    /\ Len(hist) = 3
    /\ Done
    /\ ~err
    /\ call.on = getState
    /\ call.args = <<Data(3)>>
    /\ ret = Data(2)
    /\ \E b \in 1..Len(fns) : IsBase(b) /\ Cardinality(StartsOf(b)) = 5
    /\ \E f \in 1..Len(fns), g \in 1..Len(fns) :
          /\ IsLayer(f) /\ Code[fns[f].code].body = "time"
          /\ IsLayer(g) /\ Code[fns[g].code].body = "cache"
          /\ Cardinality(StartsOf(f)) = 1
          /\ Cardinality(StartsOf(g)) = 1

====
